---- MODULE Spec2Model ----
(***************************************************************************)
(* joshuto: the command parser (commands/mod.rs), the Display and execute  *)
(* of select_files (commands/selection.rs), new_tab / close_tab            *)
(* (commands/tab_operations.rs), the process-wide context with its worker  *)
(* queue (context.rs) and the directory column (joshuto/structs.rs).       *)
(*                                                                         *)
(* A Rust string is modelled as the sequence of its characters, each a     *)
(* one-character string, so that find, trim_start, split_whitespace,       *)
(* str::parse and format! are computed character by character.             *)
(***************************************************************************)
EXTENDS Integers, Sequences, FiniteSets, TLC

VARIABLES
    line,            \* the line given to parse_command
    home,            \* HOME_DIR
    parsed,          \* the result of parse_command
    shown,           \* the Display output of the parsed command
    pc,              \* "line", "parsed" or "shown"
    tabs,            \* JoshutoContext.tabs
    curr_tab_index,  \* JoshutoContext.curr_tab_index (0-based)
    exit,            \* JoshutoContext.exit
    worker_busy,     \* JoshutoContext.worker_busy
    lastCmd,         \* the operation executed last
    ret,             \* what it returned: "Ok", "Err", or "Panic" for an index out of bounds
    run,             \* single-entry toggles executed in a row from the top of an unselected column, -1 outside such a run
    column,          \* a JoshutoColumn
    colBefore,       \* the column before the operation executed last on it
    colOp,           \* that operation, with the results the file system gave it
    worker_queue,    \* JoshutoContext.worker_queue: the jobs not yet ended, by their numbers
    message_queue,   \* JoshutoContext.message_queue
    jobState,        \* of each job: "New" (not submitted), "Queued", "Running", "Completed" or "Failed"
    submitted,       \* the jobs in the order of their add_new_worker
    started,         \* the jobs in the order in which they started running
    appended,        \* every message in the order in which it was appended to message_queue
    observed         \* the messages in the order in which the interactive thread took them

parseVars == <<line, home, parsed, shown, pc>>
ctxVars == <<tabs, curr_tab_index, exit, worker_busy, lastCmd, ret, run>>
colVars == <<column, colBefore, colOp>>
workVars == <<worker_queue, message_queue, jobState, submitted, started, appended, observed>>
vars == <<line, home, parsed, shown, pc, tabs, curr_tab_index, exit, worker_busy, lastCmd, ret, run,
          column, colBefore, colOp,
          worker_queue, message_queue, jobState, submitted, started, appended, observed>>

(***************************************************************************)
(* String literals of commands/mod.rs, as character sequences.             *)
(***************************************************************************)
\* the builtin names matched by parse_command
K_bulk_rename == <<"b","u","l","k","_","r","e","n","a","m","e">>
K_cd == <<"c","d">>
K_close_tab == <<"c","l","o","s","e","_","t","a","b">>
K_copy_files == <<"c","o","p","y","_","f","i","l","e","s">>
K_console == <<"c","o","n","s","o","l","e">>
K_cursor_move_home == <<"c","u","r","s","o","r","_","m","o","v","e","_","h","o","m","e">>
K_cursor_move_end == <<"c","u","r","s","o","r","_","m","o","v","e","_","e","n","d">>
K_cursor_move_page_up == <<"c","u","r","s","o","r","_","m","o","v","e","_","p","a","g","e","_","u","p">>
K_cursor_move_page_down == <<"c","u","r","s","o","r","_","m","o","v","e","_","p","a","g","e","_","d","o","w","n">>
K_cursor_move_down == <<"c","u","r","s","o","r","_","m","o","v","e","_","d","o","w","n">>
K_cursor_move_up == <<"c","u","r","s","o","r","_","m","o","v","e","_","u","p">>
K_cut_files == <<"c","u","t","_","f","i","l","e","s">>
K_delete_files == <<"d","e","l","e","t","e","_","f","i","l","e","s">>
K_force_quit == <<"f","o","r","c","e","_","q","u","i","t">>
K_mkdir == <<"m","k","d","i","r">>
K_new_tab == <<"n","e","w","_","t","a","b">>
K_open_file == <<"o","p","e","n","_","f","i","l","e">>
K_open_file_with == <<"o","p","e","n","_","f","i","l","e","_","w","i","t","h">>
K_paste_files == <<"p","a","s","t","e","_","f","i","l","e","s">>
K_quit == <<"q","u","i","t">>
K_reload_dir_list == <<"r","e","l","o","a","d","_","d","i","r","_","l","i","s","t">>
K_rename == <<"r","e","n","a","m","e">>
K_rename_append == <<"r","e","n","a","m","e","_","a","p","p","e","n","d">>
K_rename_prepend == <<"r","e","n","a","m","e","_","p","r","e","p","e","n","d">>
K_search == <<"s","e","a","r","c","h">>
K_search_next == <<"s","e","a","r","c","h","_","n","e","x","t">>
K_search_prev == <<"s","e","a","r","c","h","_","p","r","e","v">>
K_select_files == <<"s","e","l","e","c","t","_","f","i","l","e","s">>
K_set_mode == <<"s","e","t","_","m","o","d","e">>
K_shell == <<"s","h","e","l","l">>
K_sort == <<"s","o","r","t">>
K_tab_switch == <<"t","a","b","_","s","w","i","t","c","h">>
K_toggle_hidden == <<"t","o","g","g","l","e","_","h","i","d","d","e","n">>
\* message texts of the format! calls
M_no_home == <<":"," ","C","a","n","n","o","t"," ","f","i","n","d"," ","h","o","m","e"," ","d","i","r","e","c","t","o","r","y">>
M_missing_param == <<":"," ","m","i","s","s","i","n","g"," ","a","d","d","i","t","i","o","n","a","l"," ","p","a","r","a","m","e","t","e","r">>
M_unknown_option == <<":"," ","u","n","k","n","o","w","n"," ","o","p","t","i","o","n"," ">>
M_rename_expected == <<"r","e","n","a","m","e","_","f","i","l","e",":"," ","E","x","p","e","c","t","e","d"," ","1",","," ","g","o","t"," ","0">>
M_expected == <<":"," ","E","x","p","e","c","t","e","d"," ","1",","," ","g","o","t"," ","0">>
M_sort_unknown == <<"s","o","r","t",":"," ","U","n","k","n","o","w","n"," ","o","p","t","i","o","n"," ">>
M_no_option == <<"N","o"," ","o","p","t","i","o","n"," ","p","r","o","v","i","d","e","d">>
M_colon == <<":"," ">>
M_unknown_command == <<"U","n","k","n","o","w","n"," ","c","o","m","m","a","n","d",":"," ">>
\* core::num::ParseIntError's Display texts (e.to_string())
D_empty == <<"c","a","n","n","o","t"," ","p","a","r","s","e"," ","i","n","t","e","g","e","r"," ","f","r","o","m"," ","e","m","p","t","y"," ","s","t","r","i","n","g">>
D_invalid_digit == <<"i","n","v","a","l","i","d"," ","d","i","g","i","t"," ","f","o","u","n","d"," ","i","n"," ","s","t","r","i","n","g">>
D_pos_overflow == <<"n","u","m","b","e","r"," ","t","o","o"," ","l","a","r","g","e"," ","t","o"," ","f","i","t"," ","i","n"," ","t","a","r","g","e","t"," ","t","y","p","e">>
D_neg_overflow == <<"n","u","m","b","e","r"," ","t","o","o"," ","s","m","a","l","l"," ","t","o"," ","f","i","t"," ","i","n"," ","t","a","r","g","e","t"," ","t","y","p","e">>
\* option tokens, Display fragments and literal arguments
F_toggle == <<"-","-","t","o","g","g","l","e">>
F_all == <<"-","-","a","l","l">>
F_overwrite == <<"-","-","o","v","e","r","w","r","i","t","e">>
F_skip_exist == <<"-","-","s","k","i","p","_","e","x","i","s","t">>
W_toggle == <<" ","-","-","t","o","g","g","l","e">>
W_all == <<" ","-","-","a","l","l">>
A_reverse == <<"r","e","v","e","r","s","e">>
A_dotdot == <<".",".">>

(***************************************************************************)
(* The std string operations parse_command uses.                           *)
(***************************************************************************)
\* char::is_whitespace, over the characters the inputs are built from
IsWhitespace(c) == c \in {" ", "\t"}

\* str::find(' '): the 1-based position of the first c at or after i, 0 for None
RECURSIVE Find(_, _, _)
Find(s, c, i) ==
    IF i > Len(s) THEN 0
    ELSE IF s[i] = c THEN i
    ELSE Find(s, c, i + 1)

\* str::trim_start
RECURSIVE trim_start(_)
trim_start(s) ==
    IF s # <<>> /\ IsWhitespace(Head(s)) THEN trim_start(Tail(s)) ELSE s

\* the length of the leading run of non-whitespace characters of s
RECURSIVE WordLen(_)
WordLen(s) ==
    IF s = <<>> \/ IsWhitespace(Head(s)) THEN 0 ELSE 1 + WordLen(Tail(s))

\* str::split_whitespace, collected: the maximal non-whitespace runs, in order
RECURSIVE split_whitespace(_)
split_whitespace(s) ==
    LET t == trim_start(s)
        n == WordLen(t)
    IN  IF t = <<>> THEN <<>>
        ELSE <<SubSeq(t, 1, n)>> \o split_whitespace(SubSeq(t, n + 1, Len(t)))

(***************************************************************************)
(* str::parse::<usize>() and str::parse::<i32>() (core::num, from_str_radix *)
(* with radix 10).  A magnitude is kept as its decimal digits without      *)
(* leading zeros, so that the 64-bit and 32-bit limits are compared        *)
(* exactly; the value is built only for a numeral that fits.               *)
(***************************************************************************)
Digits == <<"0", "1", "2", "3", "4", "5", "6", "7", "8", "9">>
IsDigit(c) == \E d \in 1..10 : Digits[d] = c
DigitVal(c) == (CHOOSE d \in 1..10 : Digits[d] = c) - 1

\* usize::MAX on a 64-bit target, i32::MAX and -(i32::MIN), as digit values
UsizeMax == <<1,8,4,4,6,7,4,4,0,7,3,7,0,9,5,5,1,6,1,5>>
I32Max == <<2,1,4,7,4,8,3,6,4,7>>
I32MinAbs == <<2,1,4,7,4,8,3,6,4,8>>

\* lexicographic a > b for digit sequences of equal length
RECURSIVE LexGreater(_, _)
LexGreater(a, b) ==
    IF a = <<>> THEN FALSE
    ELSE IF Head(a) # Head(b) THEN Head(a) > Head(b)
    ELSE LexGreater(Tail(a), Tail(b))

\* the magnitude m (no leading zeros) exceeds the limit
Exceeds(m, limit) ==
    \/ Len(m) > Len(limit)
    \/ Len(m) = Len(limit) /\ LexGreater(m, limit)

\* append digit d to magnitude m (result = result * 10 + d)
PushDigit(m, d) == IF m = <<>> /\ d = 0 THEN <<>> ELSE Append(m, d)

RECURSIVE MagValue(_, _)
MagValue(m, acc) == IF m = <<>> THEN acc ELSE MagValue(Tail(m), acc * 10 + Head(m))

\* the digit loop: left to right, the first invalid digit or overflow ends it
RECURSIVE ParseDigits(_, _, _, _)
ParseDigits(s, m, limit, overflow) ==
    IF s = <<>> THEN [ok |-> TRUE, mag |-> m]
    ELSE IF ~IsDigit(Head(s)) THEN [ok |-> FALSE, err |-> "InvalidDigit"]
    ELSE LET m2 == PushDigit(m, DigitVal(Head(s)))
         IN  IF Exceeds(m2, limit) THEN [ok |-> FALSE, err |-> overflow]
             ELSE ParseDigits(Tail(s), m2, limit, overflow)

\* from_str_radix(s, 10) for a type that is signed or not
from_str_radix(s, is_signed_ty) ==
    IF s = <<>> THEN [ok |-> FALSE, err |-> "Empty"]
    ELSE IF Head(s) \in {"+", "-"} /\ Len(s) = 1 THEN [ok |-> FALSE, err |-> "InvalidDigit"]
    ELSE LET neg == is_signed_ty /\ Head(s) = "-"
             digits == IF Head(s) = "+" \/ neg THEN Tail(s) ELSE s
             limit == IF ~is_signed_ty THEN UsizeMax ELSE IF neg THEN I32MinAbs ELSE I32Max
             r == ParseDigits(digits, <<>>, limit, IF neg THEN "NegOverflow" ELSE "PosOverflow")
         IN  IF ~r.ok THEN r
             ELSE [ok |-> TRUE,
                   val |-> IF neg THEN 0 - MagValue(r.mag, 0) ELSE MagValue(r.mag, 0)]

parse_usize(s) == from_str_radix(s, FALSE)
parse_i32(s) == from_str_radix(s, TRUE)

\* ParseIntError::to_string()
IntErrorText(e) ==
    CASE e = "Empty" -> D_empty
      [] e = "InvalidDigit" -> D_invalid_digit
      [] e = "PosOverflow" -> D_pos_overflow
      [] e = "NegOverflow" -> D_neg_overflow

(***************************************************************************)
(* commands/mod.rs: parse_command.                                         *)
(***************************************************************************)
\* JoshutoResult<Box<dyn JoshutoCommand>>: Ok(command) or Err(JoshutoError)
OkCmd(c) == [ok |-> TRUE, cmd |-> c]
JoshutoError(kind, msg) == [ok |-> FALSE, kind |-> kind, msg |-> msg]

\* HOME_DIR: Option<PathBuf>
NoHome == [some |-> FALSE]
SomeHome(p) == [some |-> TRUE, path |-> p]

\* SplitLine without the trim_start of the argument
SplitLine_NoTrim(s) ==
    LET i == Find(s, " ", 1)
    IN  IF i # 0
        THEN [command |-> SubSeq(s, 1, i - 1), arg |-> SubSeq(s, i + 1, Len(s))]
        ELSE [command |-> s, arg |-> <<>>]

\* SplitLine splitting at the first whitespace character instead of the first space
SplitLine_AnyWhitespace(s) ==
    LET ws == { i \in 1..Len(s) : IsWhitespace(s[i]) }
        i == IF ws = {} THEN 0 ELSE CHOOSE k \in ws : \A j \in ws : k <= j
    IN  IF i # 0
        THEN [command |-> SubSeq(s, 1, i - 1), arg |-> trim_start(SubSeq(s, i + 1, Len(s)))]
        ELSE [command |-> s, arg |-> <<>>]

\* the split of the line at its first space
SplitLine(s) ==
    LET i == Find(s, " ", 1)
    IN  IF i # 0
        THEN [command |-> SubSeq(s, 1, i - 1), arg |-> trim_start(SubSeq(s, i + 1, Len(s)))]
        ELSE [command |-> s, arg |-> <<>>]

\* SortType::parse: the known sort-key names
SortKeys == {<<"s","i","z","e">>, <<"m","t","i","m","e">>, <<"n","a","t","u","r","a","l">>}
SortTypeParse(arg) == IF arg \in SortKeys THEN [some |-> TRUE, key |-> arg] ELSE [some |-> FALSE]

\* ParseCd falling back to the root directory, as new_tab does, when there is no home
ParseCd_RootFallback(command, arg, h) ==
    IF arg = <<>>
    THEN OkCmd([name |-> "ChangeDirectory", path |-> IF h.some THEN h.path ELSE <<"/">>])
    ELSE IF arg = A_dotdot THEN OkCmd([name |-> "ParentDirectory"])
    ELSE OkCmd([name |-> "ChangeDirectory", path |-> arg])

ParseCd(command, arg, h) ==
    IF arg = <<>>
    THEN IF h.some
         THEN OkCmd([name |-> "ChangeDirectory", path |-> h.path])
         ELSE JoshutoError("EnvVarNotPresent", command \o M_no_home)
    ELSE IF arg = A_dotdot THEN OkCmd([name |-> "ParentDirectory"])
    ELSE OkCmd([name |-> "ChangeDirectory", path |-> arg])

\* ParseCursorMove without the default of 1: an empty argument goes to the integer parser
ParseCursorMove_NoDefault(name, arg) ==
    LET r == parse_usize(arg)
    IN  IF r.ok THEN OkCmd([name |-> name, movement |-> r.val])
        ELSE JoshutoError("ParseError", IntErrorText(r.err))

ParseCursorMove(name, arg) ==
    IF arg = <<>> THEN OkCmd([name |-> name, movement |-> 1])
    ELSE LET r == parse_usize(arg)
         IN  IF r.ok THEN OkCmd([name |-> name, movement |-> r.val])
             ELSE JoshutoError("ParseError", IntErrorText(r.err))

ParseMkdir(command, arg) ==
    IF arg = <<>> THEN JoshutoError("IOInvalidData", command \o M_missing_param)
    ELSE OkCmd([name |-> "NewDirectory", path |-> arg])

\* the option loop of paste_files with each option clearing the other
RECURSIVE ParsePasteFiles_Exclusive(_, _, _)
ParsePasteFiles_Exclusive(command, toks, options) ==
    IF toks = <<>> THEN OkCmd([name |-> "PasteFiles", options |-> options])
    ELSE IF Head(toks) = F_overwrite
    THEN ParsePasteFiles_Exclusive(command, Tail(toks), [overwrite |-> TRUE, skip_exist |-> FALSE])
    ELSE IF Head(toks) = F_skip_exist
    THEN ParsePasteFiles_Exclusive(command, Tail(toks), [overwrite |-> FALSE, skip_exist |-> TRUE])
    ELSE JoshutoError("IOInvalidData", command \o M_unknown_option \o Head(toks))

\* the option loop of paste_files over the tokens not yet read
RECURSIVE ParsePasteFiles(_, _, _)
ParsePasteFiles(command, toks, options) ==
    IF toks = <<>> THEN OkCmd([name |-> "PasteFiles", options |-> options])
    ELSE IF Head(toks) = F_overwrite
    THEN ParsePasteFiles(command, Tail(toks), [options EXCEPT !.overwrite = TRUE])
    ELSE IF Head(toks) = F_skip_exist
    THEN ParsePasteFiles(command, Tail(toks), [options EXCEPT !.skip_exist = TRUE])
    ELSE JoshutoError("IOInvalidData", command \o M_unknown_option \o Head(toks))

ParseRename(arg) ==
    IF arg = <<>> THEN JoshutoError("IOInvalidData", M_rename_expected)
    ELSE OkCmd([name |-> "RenameFile", path |-> arg])

ParseSearch(command, arg) ==
    IF arg = <<>> THEN JoshutoError("IOInvalidData", command \o M_expected)
    ELSE OkCmd([name |-> "Search", pattern |-> arg])

\* the option loop of select_files over the tokens not yet read
RECURSIVE ParseSelectFiles(_, _, _, _)
ParseSelectFiles(command, toks, toggle, all) ==
    IF toks = <<>> THEN OkCmd([name |-> "SelectFiles", toggle |-> toggle, all |-> all])
    ELSE IF Head(toks) = F_toggle THEN ParseSelectFiles(command, Tail(toks), TRUE, all)
    ELSE IF Head(toks) = F_all THEN ParseSelectFiles(command, Tail(toks), toggle, TRUE)
    ELSE JoshutoError("IOInvalidData", command \o M_unknown_option \o Head(toks))

ParseSort(arg) ==
    IF arg = A_reverse THEN OkCmd([name |-> "SortReverse"])
    ELSE LET s == SortTypeParse(arg)
         IN  IF s.some THEN OkCmd([name |-> "Sort", sort_type |-> s.key])
             ELSE JoshutoError("IOInvalidData", M_sort_unknown \o arg)

ParseTabSwitch(command, arg) ==
    IF arg = <<>> THEN JoshutoError("IOInvalidData", command \o M_colon \o M_no_option)
    ELSE LET r == parse_i32(arg)
         IN  IF r.ok THEN OkCmd([name |-> "TabSwitch", movement |-> r.val])
             ELSE JoshutoError("IOInvalidData", command \o M_colon \o IntErrorText(r.err))

\* the builtins that take no argument, with the command each constructs
NoArgTable ==
    { <<K_bulk_rename, "BulkRename">>, <<K_close_tab, "CloseTab">>,
      <<K_copy_files, "CopyFiles">>, <<K_cursor_move_home, "CursorMoveHome">>,
      <<K_cursor_move_end, "CursorMoveEnd">>, <<K_cursor_move_page_up, "CursorMovePageUp">>,
      <<K_cursor_move_page_down, "CursorMovePageDown">>, <<K_cut_files, "CutFiles">>,
      <<K_delete_files, "DeleteFiles">>, <<K_force_quit, "ForceQuit">>,
      <<K_new_tab, "NewTab">>, <<K_open_file, "OpenFile">>,
      <<K_open_file_with, "OpenFileWith">>, <<K_quit, "Quit">>,
      <<K_reload_dir_list, "ReloadDirList">>, <<K_rename_append, "RenameFileAppend">>,
      <<K_rename_prepend, "RenameFilePrepend">>, <<K_search_next, "SearchNext">>,
      <<K_search_prev, "SearchPrev">>, <<K_set_mode, "SetMode">>,
      <<K_toggle_hidden, "ToggleHiddenFiles">> }
NoArgNames == { e[1] : e \in NoArgTable }

\* the builtins whose arm reads the argument
ArgNames ==
    { K_cd, K_console, K_cursor_move_down, K_cursor_move_up, K_mkdir, K_paste_files,
      K_rename, K_search, K_select_files, K_shell, K_sort, K_tab_switch }

Builtins == NoArgNames \cup ArgNames

parse_command(s, h) ==
    LET sp == SplitLine(s)
        command == sp.command
        arg == sp.arg
    IN  CASE command \in NoArgNames ->
               OkCmd([name |-> (CHOOSE e \in NoArgTable : e[1] = command)[2]])
          [] command = K_cd -> ParseCd(command, arg, h)
          [] command = K_console ->
               OkCmd([name |-> "CommandLine", prefix |-> arg, suffix |-> <<>>])
          [] command = K_cursor_move_down -> ParseCursorMove("CursorMoveDown", arg)
          [] command = K_cursor_move_up -> ParseCursorMove("CursorMoveUp", arg)
          [] command = K_mkdir -> ParseMkdir(command, arg)
          [] command = K_paste_files ->
               ParsePasteFiles(command, split_whitespace(arg),
                               [overwrite |-> FALSE, skip_exist |-> FALSE])
          [] command = K_rename -> ParseRename(arg)
          [] command = K_search -> ParseSearch(command, arg)
          [] command = K_select_files ->
               ParseSelectFiles(command, split_whitespace(arg), FALSE, FALSE)
          [] command = K_shell -> OkCmd([name |-> "ShellCommand", command |-> arg])
          [] command = K_sort -> ParseSort(arg)
          [] command = K_tab_switch -> ParseTabSwitch(command, arg)
          [] OTHER -> JoshutoError("UnknownCommand", M_unknown_command \o command)

(***************************************************************************)
(* Display of the commands whose impl is in selection.rs and               *)
(* tab_operations.rs.                                                      *)
(***************************************************************************)
\* SelectFilesFmt writing " --all" before " --toggle"
SelectFilesFmt_AllFirst(c) ==
    K_select_files \o (IF c.all THEN W_all ELSE <<>>) \o (IF c.toggle THEN W_toggle ELSE <<>>)

SelectFilesFmt(c) ==
    K_select_files \o (IF c.toggle THEN W_toggle ELSE <<>>) \o (IF c.all THEN W_all ELSE <<>>)

NewTabFmt == K_new_tab

CloseTabFmt == K_close_tab

Displayable == {"SelectFiles", "NewTab", "CloseTab"}

Display(c) ==
    CASE c.name = "SelectFiles" -> SelectFilesFmt(c)
      [] c.name = "NewTab" -> NewTabFmt
      [] c.name = "CloseTab" -> CloseTabFmt

(***************************************************************************)
(* The lines given to the parser: a name, then up to MaxArgs arguments,    *)
(* each a space followed by a token.  A token may be empty (so that spaces *)
(* repeat and a line may end in spaces) and may hold a tab.                *)
(***************************************************************************)
MaxArgs == 2

\* 2^64, one more than usize::MAX
Numeral2p64 == <<"1","8","4","4","6","7","4","4","0","7","3","7","0","9","5","5","1","6","1","6">>

Tokens ==
    { <<>>, <<"\t">>, F_toggle, F_all, F_toggle \o <<"\t">> \o F_all, F_overwrite,
      F_skip_exist, A_dotdot, A_reverse, <<"s","i","z","e">>, <<"a","b","c">>,
      <<"3">>, <<"1","2">>, <<"+","2">>, <<"-","1">>, Numeral2p64 }

RECURSIVE ArgTexts(_)
ArgTexts(k) ==
    IF k = 0 THEN {<<>>}
    ELSE LET prev == ArgTexts(k - 1)
         IN  prev \cup { a \o <<" ">> \o t : a \in prev, t \in Tokens }

\* names that are no builtin: the empty name, a word, and a builtin followed by a tab
UnknownNames == {<<>>, <<"f","o","o">>, K_cd \o <<"\t">>}

\* the lines with up to k arguments (one at most for a builtin that reads none)
Lines(k) ==
    { n \o a : n \in ArgNames \cup UnknownNames, a \in ArgTexts(k) }
        \cup { n \o a : n \in NoArgNames, a \in ArgTexts(1) }

HomeDirs == {NoHome, SomeHome(<<"/","h">>)}


(***************************************************************************)
(* context.rs: JoshutoContext, and the commands that act on it.            *)
(***************************************************************************)
MaxTabs == 3
MaxLen == 3

\* JoshutoDirEntry, by its selected flag
Entry(sel) == [selected |-> sel]

\* a tab's current column: Option of a list with a cursor index and its entries
NoList == [some |-> FALSE]
DirList(i, c) == [some |-> TRUE, index |-> i, contents |-> c]
JoshutoTab(l) == [curr_list |-> l]

\* JoshutoTab::new: a tab on a directory just listed (nothing selected, cursor on top)
FreshTabs ==
    { JoshutoTab(NoList) }
        \cup { JoshutoTab(DirList(0, [k \in 1..n |-> Entry(FALSE)])) : n \in 0..MaxLen }

\* JoshutoContext::new
ContextNew ==
    /\ exit = FALSE
    /\ curr_tab_index = 0
    /\ tabs = <<>>
    /\ worker_queue = <<>>
    /\ worker_busy = FALSE
    /\ message_queue = <<>>

\* push_tab leaving the index one past the pushed tab
push_tab_LenIndex(ts, tab) == <<Append(ts, tab), Len(ts) + 1>>

\* JoshutoContext::push_tab: the pair <<tabs, curr_tab_index>> after it
push_tab(ts, tab) == <<Append(ts, tab), Len(ts) + 1 - 1>>

\* a removal that drops the last element whatever i is
VecRemove_Last(ts, i) == SubSeq(ts, 1, Len(ts) - 1)

\* Vec::remove(i), i 0-based
VecRemove(ts, i) == SubSeq(ts, 1, i) \o SubSeq(ts, i + 2, Len(ts))

\* Quit::quit: exits unless a worker job is running
Quit_quit(ex, busy) ==
    IF busy THEN [exit |-> ex, ret |-> "Err"] ELSE [exit |-> TRUE, ret |-> "Ok"]

\* TabSwitch::tab_switch: makes new_index current
tab_switch(new_index) == new_index

\* close_tab delegating to quit only when there is no tab at all
close_tab_OffByOne(ts, idx, ex, busy, io_ok) ==
    IF Len(ts) < 1
    THEN LET q == Quit_quit(ex, busy)
         IN  [tabs |-> ts, curr_tab_index |-> idx, exit |-> q.exit, ret |-> q.ret]
    ELSE LET removed == VecRemove(ts, idx)
             idx2 == IF idx > 0 THEN idx - 1 ELSE idx
         IN  [tabs |-> removed, curr_tab_index |-> tab_switch(idx2), exit |-> ex,
              ret |-> IF io_ok THEN "Ok" ELSE "Err"]

\* CloseTab::close_tab; io_ok is whether tab_switch's change of directory succeeds
close_tab(ts, idx, ex, busy, io_ok) ==
    IF Len(ts) <= 1
    THEN LET q == Quit_quit(ex, busy)
         IN  [tabs |-> ts, curr_tab_index |-> idx, exit |-> q.exit, ret |-> q.ret]
    ELSE LET removed == VecRemove(ts, idx)
             idx2 == IF idx > 0 THEN idx - 1 ELSE idx
         IN  [tabs |-> removed, curr_tab_index |-> tab_switch(idx2), exit |-> ex,
              ret |-> IF io_ok THEN "Ok" ELSE "Err"]

\* NewTab::new_tab once JoshutoTab::new has given tab
new_tab(ts, tab, io_ok) ==
    LET pushed == Append(ts, tab)
        idx == Len(pushed) - 1
    IN  [tabs |-> pushed, curr_tab_index |-> tab_switch(idx),
         ret |-> IF io_ok THEN "Ok" ELSE "Err"]

\* JoshutoDirList::get_curr_mut: the 1-based position of the entry under the cursor, 0 for None
get_curr_mut(l) == IF l.index < Len(l.contents) THEN l.index + 1 ELSE 0

\* CursorMoveDown::execute on the current column: down by movement, clamped to the last entry
CursorMoveDownList(l, movement) ==
    IF ~l.some \/ l.contents = <<>> THEN l
    ELSE [l EXCEPT !.index = IF l.index + movement >= Len(l.contents)
                             THEN Len(l.contents) - 1
                             ELSE l.index + movement]

\* ToggleCurrent without the move down
ToggleCurrent_NoAdvance(l) ==
    IF ~l.some THEN l
    ELSE LET s == get_curr_mut(l)
         IN  IF s = 0 THEN l
             ELSE [l EXCEPT !.contents[s].selected = ~l.contents[s].selected]

\* ToggleCurrent setting the flag instead of flipping it
ToggleCurrent_SetOnly(l) ==
    IF ~l.some THEN l
    ELSE LET s == get_curr_mut(l)
         IN  IF s = 0 THEN l
             ELSE CursorMoveDownList([l EXCEPT !.contents[s].selected = TRUE], 1)

\* the branch of SelectFiles::execute for one entry: flip it, then move down by one
ToggleCurrent(l) ==
    IF ~l.some THEN l
    ELSE LET s == get_curr_mut(l)
         IN  IF s = 0 THEN l
             ELSE CursorMoveDownList(
                      [l EXCEPT !.contents[s].selected = ~l.contents[s].selected], 1)

\* an inversion that starts at the entry under the cursor
InvertAll_FromCursor(l) ==
    IF ~l.some THEN l
    ELSE [l EXCEPT !.contents = [k \in 1..Len(l.contents) |->
                                    IF k > l.index
                                    THEN Entry(~l.contents[k].selected)
                                    ELSE l.contents[k]]]

\* the branches for all entries
InvertAll(l) ==
    IF ~l.some THEN l
    ELSE [l EXCEPT !.contents = [k \in 1..Len(l.contents) |-> Entry(~l.contents[k].selected)]]

SelectAll(l) ==
    IF ~l.some THEN l
    ELSE [l EXCEPT !.contents = [k \in 1..Len(l.contents) |-> Entry(TRUE)]]

\* an execute whose single-entry form without toggle only selects
SelectFilesExecute_SetOnly(ts, idx, toggle, all) ==
    LET curr_list == ts[idx + 1].curr_list
        after == IF toggle
                 THEN IF ~all THEN ToggleCurrent(curr_list) ELSE InvertAll(curr_list)
                 ELSE IF ~all THEN ToggleCurrent_SetOnly(curr_list) ELSE SelectAll(curr_list)
    IN  [ts EXCEPT ![idx + 1].curr_list = after]

\* SelectFiles::execute: the tabs after it (idx in range)
SelectFilesExecute(ts, idx, toggle, all) ==
    LET curr_list == ts[idx + 1].curr_list
        after == IF toggle
                 THEN IF ~all THEN ToggleCurrent(curr_list) ELSE InvertAll(curr_list)
                 ELSE IF ~all THEN ToggleCurrent(curr_list) ELSE SelectAll(curr_list)
    IN  [ts EXCEPT ![idx + 1].curr_list = after]

\* the current column is non-empty, has its cursor on top and nothing selected
FreshTop(ts, idx) ==
    /\ idx < Len(ts)
    /\ ts[idx + 1].curr_list.some
    /\ ts[idx + 1].curr_list.contents # <<>>
    /\ ts[idx + 1].curr_list.index = 0
    /\ \A k \in 1..Len(ts[idx + 1].curr_list.contents) :
           ~ts[idx + 1].curr_list.contents[k].selected

\* the length of the current column during a run
RunLength(ts, idx) == Len(ts[idx + 1].curr_list.contents)

\* run after an operation that is no single-entry toggle
RunReset(ts, idx) == IF FreshTop(ts, idx) THEN 0 ELSE -1

\* commands are executed until one panics or the exit flag is set
Alive == ret # "Panic" /\ ~exit

PushTab ==
    /\ Alive
    /\ Len(tabs) < MaxTabs
    /\ \E tab \in FreshTabs :
           /\ tabs' = push_tab(tabs, tab)[1]
           /\ curr_tab_index' = push_tab(tabs, tab)[2]
    /\ lastCmd' = "push_tab"
    /\ ret' = "Ok"
    /\ run' = RunReset(tabs', curr_tab_index')
    /\ UNCHANGED <<exit, worker_busy>>
    /\ UNCHANGED parseVars
    /\ UNCHANGED colVars
    /\ UNCHANGED workVars

\* new_tab: JoshutoTab::new fails and nothing changes, or the tab is pushed
NewTab ==
    /\ Alive
    /\ lastCmd' = "new_tab"
    /\ \/ /\ ret' = "Err"
          /\ UNCHANGED <<tabs, curr_tab_index>>
       \/ /\ Len(tabs) < MaxTabs
          /\ \E tab \in FreshTabs, io_ok \in BOOLEAN :
                 LET r == new_tab(tabs, tab, io_ok)
                 IN  /\ tabs' = r.tabs
                     /\ curr_tab_index' = r.curr_tab_index
                     /\ ret' = r.ret
    /\ run' = RunReset(tabs', curr_tab_index')
    /\ UNCHANGED <<exit, worker_busy>>
    /\ UNCHANGED parseVars
    /\ UNCHANGED colVars
    /\ UNCHANGED workVars

CloseTab ==
    /\ Alive
    /\ \E io_ok \in BOOLEAN :
           LET r == close_tab(tabs, curr_tab_index, exit, worker_busy, io_ok)
           IN  /\ tabs' = r.tabs
               /\ curr_tab_index' = r.curr_tab_index
               /\ exit' = r.exit
               /\ ret' = r.ret
    /\ lastCmd' = "close_tab"
    /\ run' = RunReset(tabs', curr_tab_index')
    /\ UNCHANGED worker_busy
    /\ UNCHANGED parseVars
    /\ UNCHANGED colVars
    /\ UNCHANGED workVars

Quit ==
    /\ Alive
    /\ exit' = Quit_quit(exit, worker_busy).exit
    /\ ret' = Quit_quit(exit, worker_busy).ret
    /\ lastCmd' = "quit"
    /\ run' = RunReset(tabs, curr_tab_index)
    /\ UNCHANGED <<tabs, curr_tab_index, worker_busy>>
    /\ UNCHANGED parseVars
    /\ UNCHANGED colVars
    /\ UNCHANGED workVars

\* the command line of a select_files, as lastCmd records it
SelectFilesLine(toggle, all) ==
    IF toggle
    THEN IF all THEN "select_files --toggle --all" ELSE "select_files --toggle"
    ELSE IF all THEN "select_files --all" ELSE "select_files"

\* select_files; context.tabs[context.curr_tab_index] panics when there is no such tab
SelectFiles ==
    /\ Alive
    /\ IF curr_tab_index >= Len(tabs)
       THEN /\ lastCmd' = "select_files"
            /\ ret' = "Panic"
            /\ run' = -1
            /\ UNCHANGED tabs
       ELSE \E toggle \in BOOLEAN, all \in BOOLEAN :
                /\ lastCmd' = SelectFilesLine(toggle, all)
                /\ tabs' = SelectFilesExecute(tabs, curr_tab_index, toggle, all)
                /\ ret' = "Ok"
                /\ run' = IF toggle /\ ~all /\ run >= 0 /\ run < RunLength(tabs, curr_tab_index)
                          THEN run + 1
                          ELSE RunReset(tabs', curr_tab_index)
    /\ UNCHANGED <<curr_tab_index, exit, worker_busy>>
    /\ UNCHANGED parseVars
    /\ UNCHANGED colVars
    /\ UNCHANGED workVars

\* cursor_move_down n
CursorMoveDown ==
    /\ Alive
    /\ lastCmd' = "cursor_move_down"
    /\ IF curr_tab_index >= Len(tabs)
       THEN /\ ret' = "Panic"
            /\ UNCHANGED tabs
       ELSE /\ \E movement \in 1..MaxLen :
                  tabs' = [tabs EXCEPT ![curr_tab_index + 1].curr_list =
                               CursorMoveDownList(@, movement)]
            /\ ret' = "Ok"
    /\ run' = RunReset(tabs', curr_tab_index)
    /\ UNCHANGED <<curr_tab_index, exit, worker_busy>>
    /\ UNCHANGED parseVars
    /\ UNCHANGED colVars
    /\ UNCHANGED workVars

\* tab_switch to a tab of the list
TabSwitch ==
    /\ Alive
    /\ \E new_index \in 0..(Len(tabs) - 1), io_ok \in BOOLEAN :
           /\ curr_tab_index' = tab_switch(new_index)
           /\ ret' = IF io_ok THEN "Ok" ELSE "Err"
    /\ lastCmd' = "tab_switch"
    /\ run' = RunReset(tabs, curr_tab_index')
    /\ UNCHANGED <<tabs, exit, worker_busy>>
    /\ UNCHANGED parseVars
    /\ UNCHANGED colVars
    /\ UNCHANGED workVars

\* a worker job starts running
WorkerStart ==
    /\ Alive
    /\ ~worker_busy
    /\ worker_busy' = TRUE
    /\ lastCmd' = "worker"
    /\ UNCHANGED <<tabs, curr_tab_index, exit, ret, run>>
    /\ UNCHANGED parseVars
    /\ UNCHANGED colVars
    /\ UNCHANGED workVars

\* the running worker job ends
WorkerFinish ==
    /\ Alive
    /\ worker_busy
    /\ worker_busy' = FALSE
    /\ lastCmd' = "worker"
    /\ UNCHANGED <<tabs, curr_tab_index, exit, ret, run>>
    /\ UNCHANGED parseVars
    /\ UNCHANGED colVars
    /\ UNCHANGED workVars

\* the commands on the tab list
NextCtx ==
    \/ PushTab
    \/ NewTab
    \/ CloseTab
    \/ Quit
    \/ TabSwitch
    \/ WorkerStart
    \/ WorkerFinish

\* the commands on the current column
NextSel ==
    \/ SelectFiles
    \/ CursorMoveDown


(***************************************************************************)
(* context.rs: the worker queue.  add_new_worker is the queue's only       *)
(* operation in context.rs; the start of a job, its messages and its end   *)
(* follow the worker queue's state machine Queued -> Running ->            *)
(* {Completed, Failed}, one job running at a time.  SpecCtx sees the queue *)
(* through worker_busy alone (WorkerStart, WorkerFinish).                  *)
(***************************************************************************)
MaxJobs == 3
MaxProgress == 1

\* the worker jobs, numbered in the order of their submission
Jobs == 1..MaxJobs

\* no job has been submitted yet
NoJobs ==
    /\ jobState = [j \in Jobs |-> "New"]
    /\ submitted = <<>>
    /\ started = <<>>
    /\ appended = <<>>
    /\ observed = <<>>

\* the messages of a job
ProgressMsg(j) == [job |-> j, kind |-> "progress"]
EndMsg(j, ok) == [job |-> j, kind |-> IF ok THEN "completed" ELSE "failed"]

\* a submission that puts the job at the front of the queue
add_new_worker_Front(q, thread) == <<thread>> \o q

\* JoshutoContext::add_new_worker: worker_queue.push_back(thread)
add_new_worker(q, thread) == Append(q, thread)

\* the jobs running, and the positions in the queue of the jobs waiting
RunningJobs(st) == { j \in Jobs : st[j] = "Running" }
QueuedAt(q, st) == { i \in 1..Len(q) : st[q[i]] = "Queued" }

\* a start that does not wait for the running job
CanStart_IgnoreBusy(busy, q, st) == QueuedAt(q, st) # {}

\* a job may start: none is running and one is waiting
CanStart(busy, q, st) == ~busy /\ QueuedAt(q, st) # {}

\* the job to start: the first one waiting
FirstQueued(q, st) == q[CHOOSE i \in QueuedAt(q, st) : \A k \in QueuedAt(q, st) : i <= k]

\* an end that drops the waiting jobs along with a failed job
EndQueue_AbortOnFailure(q, j, ok) ==
    IF ok THEN LET Others(x) == x # j IN SelectSeq(q, Others) ELSE <<>>

\* the queue once job j has ended: the job is removed, whether it completed or failed
EndQueue(q, j, ok) == LET Others(x) == x # j IN SelectSeq(q, Others)

\* the progress messages job j has appended so far
ProgressCount(j) == Cardinality({ i \in 1..Len(appended) : appended[i] = ProgressMsg(j) })

\* a command commits a file operation
AddNewWorker ==
    /\ Len(submitted) < MaxJobs
    /\ LET j == Len(submitted) + 1
       IN  /\ worker_queue' = add_new_worker(worker_queue, j)
           /\ jobState' = [jobState EXCEPT ![j] = "Queued"]
           /\ submitted' = Append(submitted, j)
    /\ UNCHANGED <<message_queue, started, appended, observed>>
    /\ UNCHANGED <<tabs, curr_tab_index, exit, worker_busy, lastCmd, ret, run>>
    /\ UNCHANGED parseVars
    /\ UNCHANGED colVars

\* the main loop starts the next job on its own thread
StartJob ==
    /\ CanStart(worker_busy, worker_queue, jobState)
    /\ LET j == FirstQueued(worker_queue, jobState)
       IN  /\ jobState' = [jobState EXCEPT ![j] = "Running"]
           /\ started' = Append(started, j)
    /\ worker_busy' = TRUE
    /\ UNCHANGED <<worker_queue, message_queue, submitted, appended, observed>>
    /\ UNCHANGED <<tabs, curr_tab_index, exit, lastCmd, ret, run>>
    /\ UNCHANGED parseVars
    /\ UNCHANGED colVars

\* a running job reports progress
JobProgress ==
    /\ \E j \in RunningJobs(jobState) :
           /\ ProgressCount(j) < MaxProgress
           /\ message_queue' = Append(message_queue, ProgressMsg(j))
           /\ appended' = Append(appended, ProgressMsg(j))
    /\ UNCHANGED <<worker_queue, jobState, submitted, started, observed>>
    /\ UNCHANGED <<tabs, curr_tab_index, exit, worker_busy, lastCmd, ret, run>>
    /\ UNCHANGED parseVars
    /\ UNCHANGED colVars

\* a running job ends, completed or failed: it is removed and its status is appended
JobEnd ==
    /\ \E j \in RunningJobs(jobState), ok \in BOOLEAN :
           /\ jobState' = [jobState EXCEPT ![j] = IF ok THEN "Completed" ELSE "Failed"]
           /\ worker_queue' = EndQueue(worker_queue, j, ok)
           /\ message_queue' = Append(message_queue, EndMsg(j, ok))
           /\ appended' = Append(appended, EndMsg(j, ok))
    /\ worker_busy' = FALSE
    /\ UNCHANGED <<submitted, started, observed>>
    /\ UNCHANGED <<tabs, curr_tab_index, exit, lastCmd, ret, run>>
    /\ UNCHANGED parseVars
    /\ UNCHANGED colVars

\* the interactive thread takes the next message
DrainMessage ==
    /\ message_queue # <<>>
    /\ observed' = Append(observed, Head(message_queue))
    /\ message_queue' = Tail(message_queue)
    /\ UNCHANGED <<worker_queue, jobState, submitted, started, appended>>
    /\ UNCHANGED <<tabs, curr_tab_index, exit, worker_busy, lastCmd, ret, run>>
    /\ UNCHANGED parseVars
    /\ UNCHANGED colVars

\* the worker queue's steps
NextWork ==
    \/ AddNewWorker
    \/ StartJob
    \/ JobProgress
    \/ JobEnd
    \/ DrainMessage


(***************************************************************************)
(* joshuto/structs.rs: JoshutoColumn, the listing of one directory with    *)
(* its cursor.  The file system is an input: each listing and each         *)
(* metadata query gives any of the results it can give.                    *)
(***************************************************************************)
MaxNames == 2
MaxTime == 1

\* the names a directory's children can have, and the modification times
Names == 1..MaxNames
Times == 0..MaxTime

\* JoshutoDirEntry as the filter function of a listing makes it
JoshutoDirEntry(name) == [entry |-> name, selected |-> FALSE, marked |-> FALSE]

\* Option<Vec<JoshutoDirEntry>>
Some(v) == [some |-> TRUE, vec |-> v]

\* what fs::read_dir gives, in the order the file system gives it
DirContents ==
    UNION { { [k \in 1..n |-> JoshutoDirEntry(f[k])] :
                f \in { g \in [1..n -> Names] : \A a, b \in 1..n : a # b => g[a] # g[b] } } :
            n \in 0..MaxNames }

\* the results of JoshutoColumn::read_dir_list
ListErr == [ok |-> FALSE]
ListOk(v) == [ok |-> TRUE, vec |-> v]
Listings == {ListErr} \cup { ListOk(v) : v \in DirContents }

\* the results of std::fs::metadata(path) followed by modified()
MetaErr == [ok |-> FALSE]
MetaOk(t) == [ok |-> TRUE, modified |-> t]
Metas == {MetaErr} \cup { MetaOk(t) : t \in Times }

\* sort_func: the order of the names
sort_func(a, b) == a.entry <= b.entry

RECURSIVE SortInsert(_, _)
SortInsert(e, v) ==
    IF v = <<>> THEN <<e>>
    ELSE IF sort_func(Head(v), e)
         THEN <<Head(v)>> \o SortInsert(e, Tail(v))
         ELSE <<e>> \o v

\* Vec::sort_by(&sort_func): a stable sort
RECURSIVE sort_by(_)
sort_by(v) ==
    IF v = <<>> THEN <<>>
    ELSE SortInsert(v[Len(v)], sort_by(SubSeq(v, 1, Len(v) - 1)))

\* JoshutoColumn::new: Err when the listing or the metadata query fails
JoshutoColumn_new(listing, meta) ==
    IF ~listing.ok \/ ~meta.ok THEN [ok |-> FALSE]
    ELSE [ok |-> TRUE,
          col |-> [index |-> 0,
                   start_index |-> 0,
                   need_update |-> FALSE,
                   modified |-> meta.modified,
                   contents |-> Some(sort_by(listing.vec)),
                   selection |-> <<>>]]

\* an index left where it is whatever the length
ClampIndex_NoClamp(index, len) == index

\* update, the index after the contents have been replaced by len entries
ClampIndex(index, len) ==
    IF index >= len
    THEN IF len > 0 THEN len - 1 ELSE index
    ELSE index

\* an update that empties the contents when the listing fails
update_ClearOnError(col, listing, meta) ==
    LET stale == [col EXCEPT !.need_update = FALSE]
        listed == IF listing.ok
                  THEN [stale EXCEPT !.contents = Some(sort_by(listing.vec)),
                                     !.index = ClampIndex(stale.index, Len(listing.vec))]
                  ELSE [stale EXCEPT !.contents = Some(<<>>)]
    IN  IF meta.ok THEN [listed EXCEPT !.modified = meta.modified] ELSE listed

\* an update that leaves the column stale when the listing fails
update_KeepStaleOnError(col, listing, meta) ==
    LET listed == IF listing.ok
                  THEN LET dir_contents == sort_by(listing.vec)
                       IN  [col EXCEPT !.need_update = FALSE,
                                       !.contents = Some(dir_contents),
                                       !.index = ClampIndex(col.index, Len(dir_contents))]
                  ELSE col
    IN  IF meta.ok THEN [listed EXCEPT !.modified = meta.modified] ELSE listed

\* JoshutoColumn::update
update(col, listing, meta) ==
    LET stale == [col EXCEPT !.need_update = FALSE]
        listed == IF listing.ok
                  THEN LET dir_contents == sort_by(listing.vec)
                       IN  [stale EXCEPT !.contents = Some(dir_contents),
                                         !.index = ClampIndex(stale.index, Len(dir_contents))]
                  ELSE stale
    IN  IF meta.ok THEN [listed EXCEPT !.modified = meta.modified] ELSE listed

\* the columns JoshutoColumn::new returns
NewColumns ==
    { JoshutoColumn_new(listing, meta).col :
        listing \in Listings \ {ListErr}, meta \in Metas \ {MetaErr} }

\* no column is looked at
NoColumn == [index |-> 0, start_index |-> 0, need_update |-> FALSE, modified |-> 0,
             contents |-> Some(<<>>), selection |-> <<>>]
NoColOp == [op |-> "none"]
ColumnIdle ==
    /\ column = NoColumn
    /\ colBefore = NoColumn
    /\ colOp = NoColOp

\* the column is refreshed
ColumnUpdate ==
    /\ \E listing \in Listings, meta \in Metas :
           /\ column' = update(column, listing, meta)
           /\ colOp' = [op |-> "update", listing |-> listing, meta |-> meta]
    /\ colBefore' = column
    /\ UNCHANGED parseVars
    /\ UNCHANGED ctxVars
    /\ UNCHANGED workVars

\* the cursor is moved to another entry of the column
ColumnCursorMove ==
    /\ column.contents.some
    /\ \E i \in 0..(Len(column.contents.vec) - 1) :
           /\ i # column.index
           /\ column' = [column EXCEPT !.index = i]
    /\ colOp' = [op |-> "cursor_move"]
    /\ colBefore' = column
    /\ UNCHANGED parseVars
    /\ UNCHANGED ctxVars
    /\ UNCHANGED workVars

\* the column is marked stale
ColumnMarkStale ==
    /\ ~column.need_update
    /\ column' = [column EXCEPT !.need_update = TRUE]
    /\ colOp' = [op |-> "mark_stale"]
    /\ colBefore' = column
    /\ UNCHANGED parseVars
    /\ UNCHANGED ctxVars
    /\ UNCHANGED workVars

\* the operations on a column
NextCol ==
    \/ ColumnUpdate
    \/ ColumnCursorMove
    \/ ColumnMarkStale


(***************************************************************************)
(* The specifications: the parser applied to a line (SpecParse); the       *)
(* context from JoshutoContext::new under the commands on the tab list     *)
(* (SpecCtx); a context whose tabs have been opened, under the commands on *)
(* the current column (SpecSel); a column under refreshes (SpecCol); and   *)
(* the worker queue (SpecWork, SpecWorkFair).  close_tab, new_tab,         *)
(* push_tab and tab_switch do not read a tab's column and select_files     *)
(* changes only the current tab's column, so the two are explored apart.   *)
(***************************************************************************)
NotParsed == [ok |-> FALSE, kind |-> "NotParsed", msg |-> <<>>]

InitParse ==
    /\ ContextNew
    /\ lastCmd = "new"
    /\ ret = "Ok"
    /\ run = -1
    /\ line \in Lines(MaxArgs)
    /\ home \in HomeDirs
    /\ parsed = NotParsed
    /\ shown = <<>>
    /\ pc = "line"
    /\ ColumnIdle
    /\ NoJobs

\* the line is parsed
ParseCommand ==
    /\ pc = "line"
    /\ parsed' = parse_command(line, home)
    /\ pc' = "parsed"
    /\ UNCHANGED <<line, home, shown>>
    /\ UNCHANGED ctxVars
    /\ UNCHANGED colVars
    /\ UNCHANGED workVars

\* the parsed command is written back as a keybinding line
DisplayCommand ==
    /\ pc = "parsed"
    /\ parsed.ok
    /\ parsed.cmd.name \in Displayable
    /\ shown' = Display(parsed.cmd)
    /\ pc' = "shown"
    /\ UNCHANGED <<line, home, parsed>>
    /\ UNCHANGED ctxVars
    /\ UNCHANGED colVars
    /\ UNCHANGED workVars

NextParse == ParseCommand \/ DisplayCommand

SpecParse == InitParse /\ [][NextParse]_vars

InitCtx ==
    /\ ContextNew
    /\ lastCmd = "new"
    /\ ret = "Ok"
    /\ run = -1
    /\ line = <<>>
    /\ home = NoHome
    /\ parsed = NotParsed
    /\ shown = <<>>
    /\ pc = "line"
    /\ ColumnIdle
    /\ NoJobs

SpecCtx == InitCtx /\ [][NextCtx]_vars

\* a context with tabs opened by push_tab / new_tab and one of them made current
InitSel ==
    /\ tabs \in UNION { [1..k -> FreshTabs] : k \in 1..MaxTabs }
    /\ curr_tab_index \in 0..(Len(tabs) - 1)
    /\ exit = FALSE
    /\ worker_queue = <<>>
    /\ worker_busy = FALSE
    /\ message_queue = <<>>
    /\ lastCmd = "tab_switch"
    /\ ret = "Ok"
    /\ run = RunReset(tabs, curr_tab_index)
    /\ line = <<>>
    /\ home = NoHome
    /\ parsed = NotParsed
    /\ shown = <<>>
    /\ pc = "line"
    /\ ColumnIdle
    /\ NoJobs

SpecSel == InitSel /\ [][NextSel]_vars

\* a column as JoshutoColumn::new returns it
InitCol ==
    /\ column \in NewColumns
    /\ colBefore = column
    /\ colOp = [op |-> "new"]
    /\ ContextNew
    /\ NoJobs
    /\ lastCmd = "new"
    /\ ret = "Ok"
    /\ run = -1
    /\ line = <<>>
    /\ home = NoHome
    /\ parsed = NotParsed
    /\ shown = <<>>
    /\ pc = "line"

SpecCol == InitCol /\ [][NextCol]_vars

\* the context as JoshutoContext::new returns it, for the worker queue
InitWork ==
    /\ ContextNew
    /\ NoJobs
    /\ ColumnIdle
    /\ lastCmd = "new"
    /\ ret = "Ok"
    /\ run = -1
    /\ line = <<>>
    /\ home = NoHome
    /\ parsed = NotParsed
    /\ shown = <<>>
    /\ pc = "line"

SpecWork == InitWork /\ [][NextWork]_vars

\* the main loop keeps running and a job's thread runs until the job ends
SpecWorkFair == InitWork /\ [][NextWork]_vars /\ WF_vars(StartJob) /\ WF_vars(JobEnd)

(***************************************************************************)
(* Reading a line without the parser: the part before the first space, the *)
(* text after it, and that text's words.  The properties below are stated  *)
(* with these, not with SplitLine or split_whitespace.                     *)
(***************************************************************************)
SpacePositions(l) == { i \in 1..Len(l) : l[i] = " " }
FirstSpace(l) == CHOOSE i \in SpacePositions(l) : \A j \in SpacePositions(l) : i <= j
NamePart(l) == IF SpacePositions(l) = {} THEN l ELSE SubSeq(l, 1, FirstSpace(l) - 1)
RestPart(l) == IF SpacePositions(l) = {} THEN <<>> ELSE SubSeq(l, FirstSpace(l) + 1, Len(l))
\* RestPart without its leading whitespace
ArgPart(l) ==
    LET r == RestPart(l)
        solid == { i \in 1..Len(r) : ~IsWhitespace(r[i]) }
    IN  IF solid = {} THEN <<>>
        ELSE SubSeq(r, CHOOSE i \in solid : \A j \in solid : i <= j, Len(r))
\* the positions where a word of s starts, and the word starting there
WordStarts(s) ==
    { i \in 1..Len(s) : ~IsWhitespace(s[i]) /\ (i = 1 \/ IsWhitespace(s[i - 1])) }
WordAt(s, i) ==
    LET ends == { j \in i..Len(s) : j = Len(s) \/ IsWhitespace(s[j + 1]) }
    IN  SubSeq(s, i, CHOOSE j \in ends : \A k \in ends : j <= k)
Words(s) == { WordAt(s, i) : i \in WordStarts(s) }
OnlySpaces(s) == \A i \in 1..Len(s) : s[i] = " "
IsPrefix(p, s) == Len(p) <= Len(s) /\ SubSeq(s, 1, Len(p)) = p
IsSuffix(p, s) == Len(p) <= Len(s) /\ SubSeq(s, Len(s) - Len(p) + 1, Len(s)) = p
AllDigits(s) == s # <<>> /\ \A i \in 1..Len(s) : IsDigit(s[i])
\* the value of a numeral, from its last digit
RECURSIVE NumeralValue(_)
NumeralValue(s) ==
    IF s = <<>> THEN 0
    ELSE 10 * NumeralValue(SubSeq(s, 1, Len(s) - 1)) + DigitVal(s[Len(s)])
IntErrorTexts == {D_empty, D_invalid_digit, D_pos_overflow, D_neg_overflow}

(***************************************************************************)
(* C1: for every canonical command string s (select_files followed by the  *)
(* optional " --toggle" then " --all", or bare new_tab / close_tab),        *)
(* parse_command(s) succeeds and the Display of the result is exactly s.   *)
(***************************************************************************)
CanonicalLines ==
    { K_select_files, K_select_files \o W_toggle, K_select_files \o W_all,
      K_select_files \o W_toggle \o W_all, K_new_tab, K_close_tab }

C1_RoundTrip ==
    line \in CanonicalLines =>
        /\ pc # "line" => parsed.ok /\ parsed.cmd.name \in Displayable
        /\ pc = "shown" => shown = line

C1_Witness ==
    /\ pc = "shown"
    /\ line = K_select_files \o W_toggle \o W_all
    /\ shown = line

(***************************************************************************)
(* C2: mkdir, rename and search with an empty argument (the bare name, or  *)
(* the name followed only by spaces) always fail with IOInvalidData and    *)
(* never produce a command.                                                *)
(***************************************************************************)
MandatoryArgNames == {K_mkdir, K_rename, K_search}

EmptyArgLine(l) ==
    \E n \in MandatoryArgNames :
        IsPrefix(n, l) /\ OnlySpaces(SubSeq(l, Len(n) + 1, Len(l)))

C2_EmptyMandatoryArg ==
    (pc # "line" /\ EmptyArgLine(line)) => (~parsed.ok /\ parsed.kind = "IOInvalidData")

C2_Witness ==
    /\ pc = "parsed"
    /\ line = K_rename \o <<" ", " ">>
    /\ ~parsed.ok
    /\ parsed.kind = "IOInvalidData"

(***************************************************************************)
(* C3: cursor_move_up, cursor_move_down and tab_switch with a non-empty    *)
(* argument that is not numeric fail with an error of kind ParseError      *)
(* whose message carries the integer parser's diagnostic text.             *)
(***************************************************************************)
NumericNames == {K_cursor_move_up, K_cursor_move_down, K_tab_switch}

\* some character of the argument is neither a digit nor a sign
NonNumeric(a) == \E i \in 1..Len(a) : ~IsDigit(a[i]) /\ a[i] \notin {"+", "-"}

C3_NonNumericIsParseError ==
    (pc # "line" /\ NamePart(line) \in NumericNames /\ NonNumeric(ArgPart(line))) =>
        /\ ~parsed.ok
        /\ parsed.kind = "ParseError"
        /\ \E d \in IntErrorTexts : IsSuffix(d, parsed.msg)

(***************************************************************************)
(* C4: cursor_move_up / cursor_move_down with an empty argument give a     *)
(* move of 1 and with a decimal argument n (n in the range of usize) a     *)
(* move of n; tab_switch with an empty argument is an error and with an    *)
(* integer argument (in the range of i32, -1 included) succeeds carrying   *)
(* that integer.                                                           *)
(***************************************************************************)
MoveName(n) == IF n = K_cursor_move_up THEN "CursorMoveUp" ELSE "CursorMoveDown"

\* a numeral short enough to fit usize and i32
ShortNumeral(a) == AllDigits(a) /\ Len(a) <= 9

C4_NumericArguments ==
    pc # "line" =>
        LET n == NamePart(line)
            a == ArgPart(line)
        IN  /\ (n \in {K_cursor_move_up, K_cursor_move_down} /\ a = <<>>) =>
                   parsed = OkCmd([name |-> MoveName(n), movement |-> 1])
            /\ (n \in {K_cursor_move_up, K_cursor_move_down} /\ ShortNumeral(a)) =>
                   parsed = OkCmd([name |-> MoveName(n), movement |-> NumeralValue(a)])
            /\ (n = K_tab_switch /\ a = <<>>) => ~parsed.ok
            /\ (n = K_tab_switch /\ ShortNumeral(a)) =>
                   parsed = OkCmd([name |-> "TabSwitch", movement |-> NumeralValue(a)])
            /\ (n = K_tab_switch /\ a # <<>> /\ Head(a) = "-" /\ ShortNumeral(Tail(a))) =>
                   parsed = OkCmd([name |-> "TabSwitch", movement |-> 0 - NumeralValue(Tail(a))])

C4_Witness ==
    /\ pc = "parsed"
    /\ line = K_tab_switch \o <<" ", "-", "1">>
    /\ parsed.ok
    /\ parsed.cmd.movement = -1

(***************************************************************************)
(* C5: paste_files and select_files succeed exactly when every             *)
(* whitespace-separated argument token is one of the command's options;    *)
(* the flags of the result are true exactly for the tokens present, in any *)
(* order and combination; otherwise the parse fails with IOInvalidData and *)
(* the message names the offending token (the first one that is no option).*)
(***************************************************************************)
FlagNames == {K_paste_files, K_select_files}
OptionsOf(n) == IF n = K_paste_files THEN {F_overwrite, F_skip_exist} ELSE {F_toggle, F_all}

\* the first word of s that is not in valid
FirstOffender(s, valid) ==
    LET bad == { i \in WordStarts(s) : WordAt(s, i) \notin valid }
    IN  WordAt(s, CHOOSE i \in bad : \A j \in bad : i <= j)

C5_FlagCommands ==
    (pc # "line" /\ NamePart(line) \in FlagNames) =>
        LET n == NamePart(line)
            r == RestPart(line)
            present == Words(r)
        IN  /\ parsed.ok <=> present \subseteq OptionsOf(n)
            /\ (parsed.ok /\ n = K_paste_files) =>
                   parsed.cmd = [name |-> "PasteFiles",
                                 options |-> [overwrite |-> F_overwrite \in present,
                                              skip_exist |-> F_skip_exist \in present]]
            /\ (parsed.ok /\ n = K_select_files) =>
                   parsed.cmd = [name |-> "SelectFiles",
                                 toggle |-> F_toggle \in present,
                                 all |-> F_all \in present]
            /\ ~parsed.ok =>
                   /\ parsed.kind = "IOInvalidData"
                   /\ parsed.msg = n \o M_unknown_option \o FirstOffender(r, OptionsOf(n))

C5_Witness ==
    /\ pc = "parsed"
    /\ line = K_paste_files \o <<" ">> \o F_skip_exist \o <<" ">> \o F_overwrite
    /\ parsed.ok
    /\ parsed.cmd.options.overwrite
    /\ parsed.cmd.options.skip_exist

(***************************************************************************)
(* C6: the line is split at its first space into a command name and an     *)
(* argument (empty when there is no space); every line whose name part is  *)
(* not a builtin (the empty line and a line starting with a space          *)
(* included) fails with UnknownCommand whatever the argument text is.      *)
(***************************************************************************)
C6_UnknownCommand ==
    pc # "line" =>
        LET n == NamePart(line)
        IN  /\ n \notin Builtins =>
                   parsed = JoshutoError("UnknownCommand", M_unknown_command \o n)
            /\ n \in Builtins => (parsed.ok \/ parsed.kind # "UnknownCommand")
            /\ (n = K_shell /\ SpacePositions(line) = {}) =>
                   parsed = OkCmd([name |-> "ShellCommand", command |-> <<>>])

C6_Witness ==
    /\ pc = "parsed"
    /\ line = <<" ">> \o F_all
    /\ ~parsed.ok
    /\ parsed.kind = "UnknownCommand"

(***************************************************************************)
(* C7: cd has exactly three outcomes: an empty argument gives              *)
(* change-directory to the home directory when there is one and fails with *)
(* EnvVarNotPresent when there is none; ".." gives the parent-directory    *)
(* command; every other argument gives change-directory to that path.      *)
(***************************************************************************)
C7_ChangeDirectory ==
    (pc # "line" /\ NamePart(line) = K_cd) =>
        LET a == ArgPart(line)
        IN  /\ (a = <<>> /\ home.some) =>
                   parsed = OkCmd([name |-> "ChangeDirectory", path |-> home.path])
            /\ (a = <<>> /\ ~home.some) =>
                   (~parsed.ok /\ parsed.kind = "EnvVarNotPresent")
            /\ a = A_dotdot => parsed = OkCmd([name |-> "ParentDirectory"])
            /\ (a # <<>> /\ a # A_dotdot) =>
                   parsed = OkCmd([name |-> "ChangeDirectory", path |-> a])

C7_Witness ==
    /\ pc = "parsed"
    /\ line = K_cd
    /\ ~home.some
    /\ ~parsed.ok
    /\ parsed.kind = "EnvVarNotPresent"


(***************************************************************************)
(* C8: from a column of length n >= 1 with the cursor on entry 0 and       *)
(* nothing selected, select_files with all=false, toggle=true executed     *)
(* exactly n times leaves every entry selected and the cursor on entry     *)
(* n-1.                                                                    *)
(***************************************************************************)
CurrList == tabs[curr_tab_index + 1].curr_list

C8_ToggleRun ==
    (run >= 1 /\ run = RunLength(tabs, curr_tab_index)) =>
        /\ \A k \in 1..Len(CurrList.contents) : CurrList.contents[k].selected
        /\ CurrList.index = Len(CurrList.contents) - 1

C8_Witness ==
    /\ run = 2
    /\ lastCmd = "select_files --toggle"
    /\ Len(CurrList.contents) = 2
    /\ CurrList.contents[1].selected
    /\ CurrList.contents[2].selected
    /\ CurrList.index = 1

(***************************************************************************)
(* C9: with exactly one tab, close_tab leaves the context as quit would    *)
(* from the same state and returns what quit would return: no tab is       *)
(* removed, curr_tab_index is unchanged, and the exit flag gets the value  *)
(* quit gives it.                                                          *)
(***************************************************************************)
C9_CloseLastTabIsQuit ==
    [][ (lastCmd' = "close_tab" /\ Len(tabs) = 1) =>
            /\ tabs' = tabs
            /\ curr_tab_index' = curr_tab_index
            /\ worker_busy' = worker_busy
            /\ exit' = Quit_quit(exit, worker_busy).exit
            /\ ret' = Quit_quit(exit, worker_busy).ret ]_vars

C9_Witness ==
    /\ lastCmd = "close_tab"
    /\ Len(tabs) = 1
    /\ exit
    /\ ret = "Ok"

(***************************************************************************)
(* C10: in every reachable state of the context, from JoshutoContext::new  *)
(* onward and after any sequence of push_tab, new_tab and close_tab, the   *)
(* tab list is non-empty.                                                  *)
(***************************************************************************)
C10_TabsNonEmpty == Len(tabs) >= 1

(***************************************************************************)
(* C11: once the context holds a tab, after any sequence of new_tab,       *)
(* push_tab and close_tab, whether they return Ok or Err, the current tab  *)
(* index is at least 0 and less than the number of tabs.                   *)
(***************************************************************************)
C11_IndexInRange ==
    Len(tabs) >= 1 => (curr_tab_index >= 0 /\ curr_tab_index < Len(tabs))

C11_Witness ==
    /\ lastCmd = "new_tab"
    /\ ret = "Err"
    /\ Len(tabs) = 3
    /\ curr_tab_index = 2

(***************************************************************************)
(* C20: with two or more tabs, close_tab removes exactly the tab at        *)
(* curr_tab_index and keeps the others in their order; the new index is    *)
(* the old one minus one when that was positive, and 0 when it was 0; the  *)
(* exit flag keeps its value.                                              *)
(***************************************************************************)
C20_CloseTabRemovesCurrent ==
    [][ (lastCmd' = "close_tab" /\ Len(tabs) >= 2) =>
            /\ Len(tabs') = Len(tabs) - 1
            /\ \A k \in 1..Len(tabs') :
                   tabs'[k] = IF k <= curr_tab_index THEN tabs[k] ELSE tabs[k + 1]
            /\ curr_tab_index' = IF curr_tab_index > 0 THEN curr_tab_index - 1 ELSE 0
            /\ exit' = exit ]_vars

C20_Witness ==
    /\ lastCmd = "close_tab"
    /\ Len(tabs) = 2
    /\ curr_tab_index = 1
    /\ tabs[1] # tabs[2]
    /\ ~exit

(***************************************************************************)
(* C18: select_files with all=false, with or without toggle, on a column   *)
(* with entries flips the selected flag of the entry under the cursor,     *)
(* leaves every other entry and every other tab as it was, and moves the   *)
(* cursor down by one unless it is on the last entry, where it stays; on   *)
(* an empty or absent column nothing changes; it returns Ok in both cases. *)
(***************************************************************************)
SingleEntryLines == {"select_files", "select_files --toggle"}

C18_SingleEntryToggle ==
    [][ (lastCmd' \in SingleEntryLines /\ ret' # "Panic") =>
            /\ ret' = "Ok"
            /\ curr_tab_index' = curr_tab_index
            /\ \A t \in 1..Len(tabs) : t # curr_tab_index + 1 => tabs'[t] = tabs[t]
            /\ Len(tabs') = Len(tabs)
            /\ IF CurrList.some /\ CurrList.contents # <<>>
               THEN /\ CurrList'.some
                    /\ Len(CurrList'.contents) = Len(CurrList.contents)
                    /\ \A k \in 1..Len(CurrList.contents) :
                           CurrList'.contents[k].selected =
                               IF k = CurrList.index + 1
                               THEN ~CurrList.contents[k].selected
                               ELSE CurrList.contents[k].selected
                    /\ CurrList'.index =
                           IF CurrList.index = Len(CurrList.contents) - 1
                           THEN CurrList.index
                           ELSE CurrList.index + 1
               ELSE tabs' = tabs ]_vars

\* the cursor stayed on the last entry, which the toggle has just deselected
C18_Witness ==
    /\ lastCmd = "select_files"
    /\ ret = "Ok"
    /\ CurrList.some
    /\ Len(CurrList.contents) = 3
    /\ CurrList.index = 2
    /\ CurrList.contents[1].selected
    /\ CurrList.contents[2].selected
    /\ ~CurrList.contents[3].selected

(***************************************************************************)
(* C19: select_files with all=true leaves the cursor of the current column *)
(* where it was.  Without toggle it leaves every entry selected, and       *)
(* executing it again changes nothing.  With toggle it negates the         *)
(* selected flag of every entry, and executing it again gives back the     *)
(* selection there was before the first.                                   *)
(***************************************************************************)
AllLines == {"select_files --all", "select_files --toggle --all"}

C19_AllEntries ==
    [][ (lastCmd' \in AllLines /\ ret' # "Panic") =>
            /\ curr_tab_index' = curr_tab_index
            /\ CurrList'.some = CurrList.some
            /\ CurrList.some =>
                   /\ CurrList'.index = CurrList.index
                   /\ Len(CurrList'.contents) = Len(CurrList.contents)
                   /\ \A k \in 1..Len(CurrList.contents) :
                          CurrList'.contents[k].selected =
                              IF lastCmd' = "select_files --all"
                              THEN TRUE
                              ELSE ~CurrList.contents[k].selected
            /\ lastCmd' = "select_files --all" =>
                   SelectFilesExecute(tabs', curr_tab_index', FALSE, TRUE) = tabs'
            /\ lastCmd' = "select_files --toggle --all" =>
                   SelectFilesExecute(tabs', curr_tab_index', TRUE, TRUE) = tabs ]_vars

\* a selection of one entry out of three has been inverted, the cursor is not on top
C19_Witness ==
    /\ lastCmd = "select_files --toggle --all"
    /\ CurrList.some
    /\ Len(CurrList.contents) = 3
    /\ CurrList.index = 1
    /\ ~CurrList.contents[1].selected
    /\ CurrList.contents[2].selected
    /\ CurrList.contents[3].selected

(***************************************************************************)
(* C12: for a column made by new and then refreshed by update any number   *)
(* of times, with listings of any length and listings that fail, whenever  *)
(* the column has entries its cursor index is less than their number.      *)
(***************************************************************************)
C12_CursorInRange ==
    (column.contents.some /\ column.contents.vec # <<>>) =>
        column.index < Len(column.contents.vec)

\* a refresh has shrunk the column from two entries to one under a cursor on the second
C12_Witness ==
    /\ colOp.op = "update"
    /\ Len(colBefore.contents.vec) = 2
    /\ colBefore.index = 1
    /\ Len(column.contents.vec) = 1
    /\ column.index = 0

(***************************************************************************)
(* C13: after a refresh whose listing succeeds, the entries of the column  *)
(* are those of the new listing, in sorted order, and the cursor is in     *)
(* range; when the new listing is empty the cursor is 0, also when it was  *)
(* positive before the refresh.                                            *)
(***************************************************************************)
EntryNames(v) == { v[k].entry : k \in 1..Len(v) }

IsListingOf(v, listed) ==
    /\ Len(v) = Len(listed)
    /\ EntryNames(v) = EntryNames(listed)
    /\ \A k \in 1..Len(v) : v[k] = JoshutoDirEntry(v[k].entry)
    /\ \A a, b \in 1..Len(v) : a < b => v[a].entry < v[b].entry

C13_RefreshClampsCursor ==
    (colOp.op = "update" /\ colOp.listing.ok) =>
        /\ column.contents.some
        /\ IsListingOf(column.contents.vec, colOp.listing.vec)
        /\ IF column.contents.vec = <<>>
           THEN column.index = 0
           ELSE column.index < Len(column.contents.vec)

(***************************************************************************)
(* C14: after a refresh whose listing fails, the entries of the column and *)
(* its cursor index are what they were before the refresh; the contents    *)
(* are neither cleared nor replaced by an empty list.                      *)
(***************************************************************************)
C14_FailedListingKeepsContents ==
    (colOp.op = "update" /\ ~colOp.listing.ok) =>
        /\ column.contents = colBefore.contents
        /\ column.index = colBefore.index

\* the listing failed on a stale column of two entries whose metadata could still be read
C14_Witness ==
    /\ colOp.op = "update"
    /\ ~colOp.listing.ok
    /\ colOp.meta.ok
    /\ colBefore.need_update
    /\ Len(column.contents.vec) = 2
    /\ column.index = 1
    /\ column.modified # colBefore.modified

(***************************************************************************)
(* C15: in every state of the worker queue at most one job is Running and  *)
(* worker_busy is true exactly when a job is Running; a Queued job becomes *)
(* Running only in a state where no job is Running, so a job submitted     *)
(* while another runs stays Queued until that one is Completed or Failed.  *)
(***************************************************************************)
C15_OneRunningJob ==
    /\ [](/\ Cardinality(RunningJobs(jobState)) <= 1
          /\ worker_busy <=> RunningJobs(jobState) # {})
    /\ [][ \A j \in Jobs :
               (jobState[j] = "Queued" /\ jobState'[j] # "Queued") =>
                   /\ jobState'[j] = "Running"
                   /\ \A k \in Jobs : jobState[k] # "Running" ]_vars

\* the second job waits in the queue while the first one runs
C15_Witness ==
    /\ jobState[1] = "Running"
    /\ jobState[2] = "Queued"
    /\ worker_busy
    /\ worker_queue = <<1, 2>>

(***************************************************************************)
(* C16: jobs start in the order of their add_new_worker; the interactive   *)
(* thread takes the messages in the order in which they were appended and  *)
(* loses none; the status message of a job's end comes after every         *)
(* progress message of that job; and the jobs appear in the messages in    *)
(* the order in which they started.                                        *)
(***************************************************************************)
EndKinds == {"completed", "failed"}

\* the position of job j in the sequence of started jobs
StartPosition(j) == CHOOSE i \in 1..Len(started) : started[i] = j

C16_FifoOrder ==
    /\ IsPrefix(started, submitted)
    /\ observed \o message_queue = appended
    /\ \A a, b \in 1..Len(appended) :
           (a < b /\ appended[a].kind \in EndKinds) => appended[b].job # appended[a].job
    /\ \A a \in 1..Len(appended) : \E i \in 1..Len(started) : started[i] = appended[a].job
    /\ \A a, b \in 1..Len(appended) :
           a < b => StartPosition(appended[a].job) <= StartPosition(appended[b].job)

\* both jobs have run, the first one with progress, and every message has been taken
C16_Witness ==
    /\ started = <<1, 2>>
    /\ message_queue = <<>>
    /\ Len(observed) >= 3
    /\ observed[1] = ProgressMsg(1)
    /\ observed[2].job = 1
    /\ observed[2].kind \in EndKinds
    /\ observed[Len(observed)].job = 2
    /\ observed[Len(observed)].kind \in EndKinds

(***************************************************************************)
(* C17: with the main loop and the job threads scheduled fairly, every     *)
(* submitted job eventually is Completed or Failed and out of the queue,   *)
(* also when jobs before it fail.  The end of a job leaves every waiting   *)
(* job Queued and in the queue; a Completed or Failed job keeps that state *)
(* (no retry); a Running job never goes back to Queued.                    *)
(***************************************************************************)
Terminal == {"Completed", "Failed"}
InQueue(q, j) == \E i \in 1..Len(q) : q[i] = j

C17_EveryJobEnds ==
    /\ \A j \in Jobs :
           (jobState[j] = "Queued") ~> (jobState[j] \in Terminal /\ ~InQueue(worker_queue, j))
    /\ [][ \A j \in Jobs :
               /\ jobState[j] \in Terminal => jobState'[j] = jobState[j]
               /\ jobState[j] = "Running" => jobState'[j] \in Terminal \cup {"Running"}
               /\ (jobState[j] = "Queued" /\ InQueue(worker_queue, j)
                       /\ \E k \in Jobs : jobState[k] = "Running" /\ jobState'[k] \in Terminal)
                   => (jobState'[j] = "Queued" /\ InQueue(worker_queue', j)) ]_vars

\* the first job has failed and the second, queued behind it, has completed
C17_Witness ==
    /\ jobState[1] = "Failed"
    /\ jobState[2] = "Completed"
    /\ worker_queue = <<>>
    /\ ~worker_busy
    /\ started = <<1, 2>>

(***************************************************************************)
(* C21: select_files with toggle=false, all=false changes the context      *)
(* exactly as select_files with toggle=true, all=false does from the same  *)
(* state and returns the same; in particular, on a selected entry it       *)
(* clears the flag instead of leaving it set.                              *)
(***************************************************************************)
C21_NonToggleIsToggle ==
    [][ (lastCmd' = "select_files" /\ ret' # "Panic") =>
            /\ tabs' = SelectFilesExecute(tabs, curr_tab_index, TRUE, FALSE)
            /\ curr_tab_index' = curr_tab_index
            /\ exit' = exit
            /\ worker_busy' = worker_busy
            /\ ret' = "Ok"
            /\ (/\ CurrList.some
                /\ CurrList.index < Len(CurrList.contents)
                /\ CurrList.contents[CurrList.index + 1].selected)
               => ~CurrList'.contents[CurrList.index + 1].selected ]_vars

\* the only entry of the column, selected before, has been deselected without toggle
C21_Witness ==
    /\ lastCmd = "select_files"
    /\ ret = "Ok"
    /\ CurrList.some
    /\ Len(CurrList.contents) = 1
    /\ CurrList.index = 0
    /\ ~CurrList.contents[1].selected

(***************************************************************************)
(* C22: every update leaves need_update false, whether the listing         *)
(* succeeded or failed; after a failed listing the column is thus not      *)
(* stale although its contents are those from before; and the stored       *)
(* modification time is the one the metadata query gave whenever that      *)
(* query succeeded, also after a failed listing.                           *)
(***************************************************************************)
C22_UpdateClearsStale ==
    colOp.op = "update" =>
        /\ ~column.need_update
        /\ ~colOp.listing.ok => column.contents = colBefore.contents
        /\ colOp.meta.ok => column.modified = colOp.meta.modified

\* a stale column whose listing failed: no longer stale, same entry, new modification time
C22_Witness ==
    /\ colOp.op = "update"
    /\ ~colOp.listing.ok
    /\ colOp.meta.ok
    /\ colBefore.need_update
    /\ ~column.need_update
    /\ Len(column.contents.vec) = 1
    /\ column.contents = colBefore.contents
    /\ column.modified # colBefore.modified

====
